---------------------------- MODULE Spec2Model ----------------------------
(***************************************************************************)
(* A4poster: the layout calculator (drawMetrics), the image upload         *)
(* handler (handleFileUpload), the settings handler (updateSetting) and    *)
(* the PDF generation run (generatePDF) of src/App.tsx.                    *)
(*                                                                         *)
(* JavaScript numbers are modelled as exact rationals <<n, d>> in lowest   *)
(* terms with d > 0, so that equality of two numbers is equality of the    *)
(* two pairs.  Rounding of IEEE doubles is not modelled.                   *)
(***************************************************************************)
EXTENDS Integers, Sequences, FiniteSets, TLC

(***************************************************************************)
(* Bounds of the model.                                                    *)
(***************************************************************************)
\* largest value the rows / cols sliders are moved to
MaxGrid == 2
\* number of entries of ImageCatalog the image loader can deliver
MaxImages == 2
\* uploads that may be decoding at the same time
MaxPending == 1

(***************************************************************************)
(* Rational arithmetic.                                                    *)
(***************************************************************************)
RECURSIVE GCD(_, _)
GCD(a, b) == IF b = 0 THEN a ELSE GCD(b, a % b)

Abs(x) == IF x < 0 THEN -x ELSE x

Norm(n, d) ==
    LET g == GCD(Abs(n), Abs(d))
        s == IF d < 0 THEN -1 ELSE 1
    IN  <<(s * n) \div g, (s * d) \div g>>

Num(k) == <<k, 1>>
RMul(a, b) == Norm(a[1] * b[1], a[2] * b[2])
RDiv(a, b) == Norm(a[1] * b[2], a[2] * b[1])
RAdd(a, b) == Norm(a[1] * b[2] + b[1] * a[2], a[2] * b[2])
RSub(a, b) == Norm(a[1] * b[2] - b[1] * a[2], a[2] * b[2])
RLess(a, b) == a[1] * b[2] < b[1] * a[2]
RLeq(a, b) == a[1] * b[2] <= b[1] * a[2]
IsInteger(a) == a[2] = 1

\* conversion of a non-negative number to a WebIDL unsigned long: the
\* fraction is dropped (every value of the model is far below 2^32)
ToUnsignedLong(a) == Num(a[1] \div a[2])

(***************************************************************************)
(* Paper catalog and default settings (constants.ts).                      *)
(***************************************************************************)
PaperSizeNames == {"a4", "a3", "letter"}

PAPER_SIZES ==
    [a4     |-> [width |-> Num(210),       height |-> Num(297)],
     a3     |-> [width |-> Num(297),       height |-> Num(420)],
     letter |-> [width |-> Num(216),       height |-> Num(279)]]

\* the settings the application starts with, one per paper size the default
\* may name: paperSize and overlapMm are never written by the application,
\* rows / cols / orientation are overwritten by the first completed upload
DEFAULT_SETTINGS ==
    {[rows |-> 1, cols |-> 1, overlapMm |-> 0, paperSize |-> p,
      orientation |-> "portrait"] : p \in PaperSizeNames}

(***************************************************************************)
(* Images the image loader can deliver: <<pixelWidth, pixelHeight>>.       *)
(***************************************************************************)
ImageCatalog ==
    <<<<1600, 1200>>, <<70, 99>>, <<3, 2>>, <<2, 3>>, <<99, 70>>, <<1, 1>>,
      <<5, 4>>, <<4, 5>>>>

Min(a, b) == IF a < b THEN a ELSE b

ImageDims == {ImageCatalog[i] : i \in 1..Min(MaxImages, Len(ImageCatalog))}

\* the value null of image and of drawMetrics
Null == [null |-> TRUE]

\* the ImageMetadata record built in img.onload (src is left out)
ImageMetadata(w, h) ==
    [width |-> w, height |-> h, aspectRatio |-> RDiv(Num(w), Num(h))]

(***************************************************************************)
(* Layout calculator: the body of the drawMetrics memo.                    *)
(***************************************************************************)
SheetWidth(s) ==
    LET paper == PAPER_SIZES[s.paperSize]
    IN  IF s.orientation = "portrait" THEN paper.width ELSE paper.height

SheetHeightNeverSwapped(s) == PAPER_SIZES[s.paperSize].height

SheetHeight(s) ==
    LET paper == PAPER_SIZES[s.paperSize]
    IN  IF s.orientation = "portrait" THEN paper.height ELSE paper.width

EfficiencyOfWidthOnly(drawW, drawH, posterW, posterH) ==
    RMul(RDiv(drawW, posterW), Num(100))

\* ((finalDrawW * finalDrawH) / (totalPosterWidth * totalPosterHeight)) * 100
Efficiency(drawW, drawH, posterW, posterH) ==
    RMul(RDiv(RMul(drawW, drawH), RMul(posterW, posterH)), Num(100))

WidthSaturatesOnTie(imageAspect, posterAspect) ==
    RLeq(posterAspect, imageAspect)

WidthSaturatesWhenTaller(imageAspect, posterAspect) ==
    RLess(imageAspect, posterAspect)

\* if (imageAspect > posterAspect)
WidthSaturates(imageAspect, posterAspect) == RLess(posterAspect, imageAspect)

FitWidthMultiplied(totalPosterWidth, imageAspect) ==
    [w |-> totalPosterWidth, h |-> RMul(totalPosterWidth, imageAspect)]

\* the branch in which the width saturates
FitWidth(totalPosterWidth, imageAspect) ==
    [w |-> totalPosterWidth, h |-> RDiv(totalPosterWidth, imageAspect)]

\* the else branch, in which the height saturates
FitHeightDivided(totalPosterHeight, imageAspect) ==
    [w |-> RDiv(totalPosterHeight, imageAspect), h |-> totalPosterHeight]

FitHeight(totalPosterHeight, imageAspect) ==
    [w |-> RMul(totalPosterHeight, imageAspect), h |-> totalPosterHeight]

TotalPosterWidthTransposed(pWidth, s) ==
    RMul(pWidth, Num(IF s.orientation = "landscape" THEN s.rows ELSE s.cols))

\* totalPosterWidth = pWidth * settings.cols
TotalPosterWidth(pWidth, s) == RMul(pWidth, Num(s.cols))

\* totalPosterHeight = pHeight * settings.rows
TotalPosterHeight(pHeight, s) == RMul(pHeight, Num(s.rows))

computeLayout(img, s) ==
    IF img = Null THEN Null
    ELSE
    LET pWidth == SheetWidth(s)
        pHeight == SheetHeight(s)
        totalPosterWidth == TotalPosterWidth(pWidth, s)
        totalPosterHeight == TotalPosterHeight(pHeight, s)
        posterAspect == RDiv(totalPosterWidth, totalPosterHeight)
        imageAspect == RDiv(Num(img.width), Num(img.height))
        wide == WidthSaturates(imageAspect, posterAspect)
        fit == IF wide THEN FitWidth(totalPosterWidth, imageAspect)
               ELSE FitHeight(totalPosterHeight, imageAspect)
        finalDrawW == fit.w
        finalDrawH == fit.h
    IN  [finalDrawW |-> finalDrawW, finalDrawH |-> finalDrawH,
         efficiency |-> Efficiency(finalDrawW, finalDrawH,
                                   totalPosterWidth, totalPosterHeight),
         pWidth |-> pWidth, pHeight |-> pHeight,
         totalPosterWidth |-> totalPosterWidth,
         totalPosterHeight |-> totalPosterHeight,
         posterAspect |-> posterAspect,
         wide |-> wide]

(***************************************************************************)
(* Tile computation of one loop iteration of generatePDF.                  *)
(***************************************************************************)
imgChunkW(img, s) == RDiv(Num(img.width), Num(s.cols))
imgChunkH(img, s) == RDiv(Num(img.height), Num(s.rows))

\* canvas.width = imgChunkW; canvas.height = imgChunkH
CanvasSize(w, h) == [w |-> ToUnsignedLong(w), h |-> ToUnsignedLong(h)]

SourceCropTruncated(img, s, row, col) ==
    LET w == ToUnsignedLong(imgChunkW(img, s))
        h == ToUnsignedLong(imgChunkH(img, s))
    IN  [x |-> RMul(Num(col), w), y |-> RMul(Num(row), h), w |-> w, h |-> h]

\* the source rectangle handed to ctx.drawImage
SourceCrop(img, s, row, col) ==
    LET w == imgChunkW(img, s)
        h == imgChunkH(img, s)
    IN  [x |-> RMul(Num(col), w), y |-> RMul(Num(row), h), w |-> w, h |-> h]

DestDrawMinusOverlap(m, s) ==
    LET w == RSub(RDiv(m.finalDrawW, Num(s.cols)), Num(s.overlapMm))
        h == RSub(RDiv(m.finalDrawH, Num(s.rows)), Num(s.overlapMm))
    IN  [x |-> RDiv(RSub(m.pWidth, w), Num(2)),
         y |-> RDiv(RSub(m.pHeight, h), Num(2)), w |-> w, h |-> h]

DestDrawTopLeft(m, s) ==
    [x |-> Num(0), y |-> Num(0),
     w |-> RDiv(m.finalDrawW, Num(s.cols)),
     h |-> RDiv(m.finalDrawH, Num(s.rows))]

DestDrawHeightByCols(m, s) ==
    LET drawW == RDiv(m.finalDrawW, Num(s.cols))
        drawH == RDiv(m.finalDrawH, Num(s.cols))
    IN  [x |-> RDiv(RSub(m.pWidth, drawW), Num(2)),
         y |-> RDiv(RSub(m.pHeight, drawH), Num(2)),
         w |-> drawW, h |-> drawH]

\* the rectangle handed to pdf.addImage and pdf.rect
DestDraw(m, s) ==
    LET drawW == RDiv(m.finalDrawW, Num(s.cols))
        drawH == RDiv(m.finalDrawH, Num(s.rows))
    IN  [x |-> RDiv(RSub(m.pWidth, drawW), Num(2)),
         y |-> RDiv(RSub(m.pHeight, drawH), Num(2)),
         w |-> drawW, h |-> drawH]

PageNumberByRows(s, row, col) == row * s.rows + col + 1

\* the numbers of the caption "Pagina n | Linha r+1, Col c+1"
PageNumber(s, row, col) == row * s.cols + col + 1

RowLabelZeroBased(row) == row

RowLabel(row) == row + 1
ColLabel(col) == col + 1

\* a page of the document, before anything is drawn on it
BlankPage(s) ==
    [drawn |-> FALSE, pageNumber |-> 0, rowLabel |-> 0, colLabel |-> 0,
     crop |-> [x |-> Num(0), y |-> Num(0), w |-> Num(0), h |-> Num(0)],
     canvas |-> [w |-> Num(0), h |-> Num(0)],
     dest |-> [x |-> Num(0), y |-> Num(0), w |-> Num(0), h |-> Num(0)],
     paperSize |-> s.paperSize, orientation |-> s.orientation]

\* the page after drawImage, addImage, rect and text of cell (row, col);
\* getContext('2d') of a canvas just created returns a context
DrawnPage(img, s, m, row, col) ==
    [drawn |-> TRUE,
     pageNumber |-> PageNumber(s, row, col),
     rowLabel |-> RowLabel(row), colLabel |-> ColLabel(col),
     crop |-> SourceCrop(img, s, row, col),
     canvas |-> CanvasSize(imgChunkW(img, s), imgChunkH(img, s)),
     dest |-> DestDraw(m, s),
     paperSize |-> s.paperSize, orientation |-> s.orientation]

NeedsAddPageAlways(row, col) == TRUE

\* pdf.addPage is called for every cell but the first
NeedsAddPage(row, col) == row > 0 \/ col > 0

(***************************************************************************)
(* State of the App component and of the generation run.                   *)
(***************************************************************************)
VARIABLES
    image,          \* useState<ImageMetadata | null>
    settings,       \* useState<TileSettings>
    isGenerating,   \* useState(false)
    pending,        \* images being read and decoded by handleFileUpload
    pc,             \* position of generatePDF: idle, at the await, or hung
    snap,           \* image, settings, drawMetrics captured by generatePDF
    pdf,            \* pages of the jsPDF document of the latest run
    saved,          \* pdf.save was called in the latest run
    alerted         \* alert("Erro ao gerar PDF.") was shown in the latest run

vars == <<image, settings, isGenerating, pending, pc, snap, pdf, saved,
          alerted>>

drawMetricsNullOnOneSheet ==
    IF image = Null \/ settings.rows * settings.cols = 1 THEN Null
    ELSE computeLayout(image, settings)

\* the memo drawMetrics is recomputed whenever image or settings change
drawMetricsDepsImageOnly ==
    IF image = Null THEN Null
    ELSE LET wider == image.width > image.height
         IN  computeLayout(image,
                 [settings EXCEPT
                    !.cols = IF wider THEN 3 ELSE 2,
                    !.rows = IF wider THEN 2 ELSE 3,
                    !.orientation = IF wider THEN "landscape" ELSE "portrait"])

drawMetrics == computeLayout(image, settings)

\* the values the rows / cols range inputs deliver
SliderMin == 1
SliderMax == 15
SliderValuesFromZero == 0..Min(SliderMax, MaxGrid)

SliderValues == SliderMin..Min(SliderMax, MaxGrid)

NoSnap == [image |-> Null, settings |-> Null, drawMetrics |-> Null]

Init ==
    /\ image = Null
    /\ settings \in DEFAULT_SETTINGS
    /\ isGenerating = FALSE
    /\ pending = {}
    /\ pc = "idle"
    /\ snap = NoSnap
    /\ pdf = <<>>
    /\ saved = FALSE
    /\ alerted = FALSE

(***************************************************************************)
(* handleFileUpload: a file is chosen, read and decoded; img.onload then   *)
(* stores the image and applies the suggested grid and orientation.        *)
(***************************************************************************)
handleFileUpload ==
    /\ Cardinality(pending) < MaxPending
    /\ \E d \in ImageDims : pending' = pending \cup {d}
    /\ UNCHANGED <<image, settings, isGenerating, pc, snap, pdf, saved,
                   alerted>>

bestOrientationSquareLandscape(aspectRatio) ==
    IF RLeq(Num(1), aspectRatio) THEN "landscape" ELSE "portrait"

bestOrientation(aspectRatio) ==
    IF RLess(Num(1), aspectRatio) THEN "landscape" ELSE "portrait"

suggestedCols(aspectRatio) == IF RLess(Num(1), aspectRatio) THEN 3 ELSE 2
suggestedRows(aspectRatio) == IF RLess(Num(1), aspectRatio) THEN 2 ELSE 3

imgOnloadImageOnly ==
    /\ \E d \in pending :
         /\ image' = ImageMetadata(d[1], d[2])
         /\ pending' = pending \ {d}
    /\ UNCHANGED <<settings, isGenerating, pc, snap, pdf, saved, alerted>>

imgOnload ==
    /\ \E d \in pending :
         LET m == ImageMetadata(d[1], d[2])
         IN  /\ image' = m
             /\ settings' = [settings EXCEPT
                               !.cols = suggestedCols(m.aspectRatio),
                               !.rows = suggestedRows(m.aspectRatio),
                               !.orientation = bestOrientation(m.aspectRatio)]
             /\ pending' = pending \ {d}
    /\ UNCHANGED <<isGenerating, pc, snap, pdf, saved, alerted>>

(***************************************************************************)
(* updateSetting, as called by the controls of the settings panel, which   *)
(* is rendered only while an image is loaded.                              *)
(***************************************************************************)
updateSettingDropsPrev(key, value) ==
    settings' = [[rows |-> 1, cols |-> 1, overlapMm |-> 0, paperSize |-> "a4",
                  orientation |-> "portrait"] EXCEPT ![key] = value]

updateSettingReadvises(key, value) ==
    settings' = [[settings EXCEPT
                    !.cols = suggestedCols(image.aspectRatio),
                    !.rows = suggestedRows(image.aspectRatio),
                    !.orientation = bestOrientation(image.aspectRatio)]
                 EXCEPT ![key] = value]

updateSetting(key, value) ==
    settings' = [settings EXCEPT ![key] = value]

updateCols ==
    /\ image # Null
    /\ \E v \in SliderValues : updateSetting("cols", v)
    /\ UNCHANGED <<image, isGenerating, pending, pc, snap, pdf, saved,
                   alerted>>

updateRows ==
    /\ image # Null
    /\ \E v \in SliderValues : updateSetting("rows", v)
    /\ UNCHANGED <<image, isGenerating, pending, pc, snap, pdf, saved,
                   alerted>>

updateOrientation ==
    /\ image # Null
    /\ \E v \in {"portrait", "landscape"} : updateSetting("orientation", v)
    /\ UNCHANGED <<image, isGenerating, pending, pc, snap, pdf, saved,
                   alerted>>

\* the button "Limpar Imagem": setImage(null)
clearImage ==
    /\ image # Null
    /\ image' = Null
    /\ UNCHANGED <<settings, isGenerating, pending, pc, snap, pdf, saved,
                   alerted>>

(***************************************************************************)
(* generatePDF.  The closure reads image, settings and drawMetrics of the  *)
(* render in which the button was clicked.  The code after the await runs  *)
(* to its end without yielding to the event loop.                          *)
(***************************************************************************)
\* new jsPDF({orientation, unit, format}): a document with one page
NewDocument(s) == <<BlankPage(s)>>

generatePDFEnabledAlways ==
    /\ image # Null
    /\ drawMetrics # Null
    /\ isGenerating' = TRUE
    /\ snap' = [image |-> image, settings |-> settings,
                drawMetrics |-> drawMetrics]
    /\ pdf' = NewDocument(settings)
    /\ pc' = "await"
    /\ saved' = FALSE
    /\ alerted' = FALSE
    /\ UNCHANGED <<image, settings, pending>>

\* click on "GERAR PDF", up to the await of the image decode
generatePDF ==
    /\ image # Null
    /\ drawMetrics # Null
    /\ ~isGenerating
    /\ isGenerating' = TRUE
    /\ snap' = [image |-> image, settings |-> settings,
                drawMetrics |-> drawMetrics]
    /\ pdf' = NewDocument(settings)
    /\ pc' = "await"
    /\ saved' = FALSE
    /\ alerted' = FALSE
    /\ UNCHANGED <<image, settings, pending>>

\* click on "GERAR PDF" when window.jspdf or the constructor throws: catch
\* and finally run in the same handler
generatePDFThrows ==
    /\ image # Null
    /\ drawMetrics # Null
    /\ ~isGenerating
    /\ snap' = NoSnap
    /\ pdf' = <<>>
    /\ saved' = FALSE
    /\ alerted' = TRUE
    /\ UNCHANGED <<image, settings, isGenerating, pending, pc>>

\* pdf.addImage, pdf.rect and pdf.text draw on the current (last) page
SetLast(doc, page) == [doc EXCEPT ![Len(doc)] = page]

\* the two for loops, from the iteration (row, col) on: addPage, canvas,
\* drawImage, addImage, rect, text, then c++ (and r++ at the end of a row)
RECURSIVE renderLoop(_, _, _, _)
renderLoop(doc, run, row, col) ==
    IF row >= run.settings.rows THEN doc
    ELSE
    LET s == run.settings
        added == IF NeedsAddPage(row, col) THEN Append(doc, BlankPage(s))
                 ELSE doc
        done == SetLast(added, DrawnPage(run.image, s, run.drawMetrics,
                                         row, col))
    IN  IF col + 1 < s.cols THEN renderLoop(done, run, row, col + 1)
        ELSE renderLoop(done, run, row + 1, 0)

renderAndSaveReadsState ==
    /\ pc = "await"
    /\ pdf' = renderLoop(pdf, IF image = Null THEN snap
                               ELSE [image |-> image, settings |-> settings,
                                     drawMetrics |-> drawMetrics], 0, 0)
    /\ saved' = TRUE
    /\ isGenerating' = FALSE
    /\ pc' = "idle"
    /\ UNCHANGED <<image, settings, pending, snap, alerted>>

\* img.onload resolves the awaited promise: the loop, pdf.save and finally
renderAndSave ==
    /\ pc = "await"
    /\ pdf' = renderLoop(pdf, snap, 0, 0)
    /\ saved' = TRUE
    /\ isGenerating' = FALSE
    /\ pc' = "idle"
    /\ UNCHANGED <<image, settings, pending, snap, alerted>>

renderThrowsKeepsFlag ==
    /\ pc = "await"
    /\ pdf' = <<>>
    /\ snap' = NoSnap
    /\ alerted' = TRUE
    /\ pc' = "idle"
    /\ UNCHANGED <<image, settings, isGenerating, pending, saved>>

\* img.onload resolves the awaited promise and the renderer throws in the
\* loop or in pdf.save: catch logs and alerts, finally resets the flag; the
\* document is dropped
renderThrows ==
    /\ pc = "await"
    /\ pdf' = <<>>
    /\ snap' = NoSnap
    /\ alerted' = TRUE
    /\ isGenerating' = FALSE
    /\ pc' = "idle"
    /\ UNCHANGED <<image, settings, pending, saved>>

\* the decode fails: only onload is handled, the promise stays pending
decodeError ==
    /\ pc = "await"
    /\ pc' = "hung"
    /\ UNCHANGED <<image, settings, isGenerating, pending, snap, pdf,
                   saved, alerted>>

Next ==
    \/ handleFileUpload
    \/ imgOnload
    \/ updateCols
    \/ updateRows
    \/ updateOrientation
    \/ clearImage
    \/ generatePDF
    \/ generatePDFThrows
    \/ renderAndSave
    \/ renderThrows
    \/ decodeError

Spec == Init /\ [][Next]_vars

\* the browser delivers one of the events of the Image a run waits for, and
\* the continuation of the awaited promise runs once it is resolved
FairSpec ==
    Spec /\ WF_vars(decodeError \/ renderThrows \/ renderAndSave)

(***************************************************************************)
(* One upload of any image of the catalog, by a user who then moves the    *)
(* sliders, toggles the orientation and generates; nothing fails.  The     *)
(* default overlapMm ranges over OverlapValues.                            *)
(***************************************************************************)
OverlapValues == {0, 10}

AllImageDims == {ImageCatalog[i] : i \in 1..Len(ImageCatalog)}

InitOneUpload ==
    /\ image = Null
    /\ settings \in {[d EXCEPT !.overlapMm = o] :
                         d \in DEFAULT_SETTINGS, o \in OverlapValues}
    /\ isGenerating = FALSE
    /\ pending \in {{d} : d \in AllImageDims}
    /\ pc = "idle"
    /\ snap = NoSnap
    /\ pdf = <<>>
    /\ saved = FALSE
    /\ alerted = FALSE

NextOneUpload ==
    \/ imgOnload
    \/ updateCols
    \/ updateRows
    \/ updateOrientation
    \/ generatePDF
    \/ renderAndSave

SpecOneUpload == InitOneUpload /\ [][NextOneUpload]_vars

(***************************************************************************)
(* Properties of the layout calculator.                                    *)
(***************************************************************************)
\* every layout the state holds: the memo of the current render and the
\* one captured by a generation run in progress
LayoutsInState ==
    (IF image # Null
     THEN {[image |-> image, settings |-> settings,
            drawMetrics |-> drawMetrics]}
     ELSE {})
    \cup (IF snap # NoSnap THEN {snap} ELSE {})

ImageAspectOf(l) == RDiv(Num(l.image.width), Num(l.image.height))

\* C1: for every paper size, orientation, grid and image the fitted draw
\* size keeps the aspect ratio of the image,
\* finalDrawW * image.height = finalDrawH * image.width, in the
\* width-saturating and in the height-saturating branch.
C1_AspectPreserved ==
    \A l \in LayoutsInState :
        RMul(l.drawMetrics.finalDrawW, Num(l.image.height))
            = RMul(l.drawMetrics.finalDrawH, Num(l.image.width))

\* a state that holds a layout of each branch: the run in progress captured
\* one branch, the settings changed since give the other
C1_Witness ==
    \E a, b \in LayoutsInState :
        /\ a.drawMetrics.wide
        /\ ~b.drawMetrics.wide
        /\ ImageAspectOf(b) # b.drawMetrics.posterAspect

\* C2: the fitted image lies inside the poster rectangle and touches it on
\* at least one axis.
C2_ContainedAndTouching ==
    \A l \in LayoutsInState :
        LET m == l.drawMetrics
        IN  /\ RLeq(m.finalDrawW, m.totalPosterWidth)
            /\ RLeq(m.finalDrawH, m.totalPosterHeight)
            /\ \/ m.finalDrawW = m.totalPosterWidth
               \/ m.finalDrawH = m.totalPosterHeight

\* a layout with a margin on exactly one axis
C2_Witness ==
    \E l \in LayoutsInState :
        /\ RLess(l.drawMetrics.finalDrawW, l.drawMetrics.totalPosterWidth)
        /\ l.drawMetrics.finalDrawH = l.drawMetrics.totalPosterHeight

DrawnPages == {i \in 1..Len(pdf) : pdf[i].drawn}

\* a generation run has a document
RunHasDocument == snap # NoSnap /\ pdf # <<>>

\* C4: for every cell rendered, the source crop handed to drawImage and the
\* destination rectangle handed to addImage have the same aspect ratio:
\* crop.w * dest.h = crop.h * dest.w.
C4_TileAspectPreserved ==
    \A i \in DrawnPages :
        RMul(pdf[i].crop.w, pdf[i].dest.h) = RMul(pdf[i].crop.h, pdf[i].dest.w)

\* a tile beyond the first row whose crop width is fractional and whose grid
\* is not square
C4_Witness ==
    \E i \in DrawnPages :
        /\ ~IsInteger(pdf[i].crop.w)
        /\ pdf[i].rowLabel > 1
        /\ snap.settings.rows # snap.settings.cols

RECURSIVE SumOfCropAreas(_, _)
SumOfCropAreas(doc, n) ==
    IF n = 0 THEN Num(0)
    ELSE RAdd(SumOfCropAreas(doc, n - 1), RMul(doc[n].crop.w, doc[n].crop.h))

CropsDisjoint(a, b) ==
    \/ RLeq(RAdd(a.x, a.w), b.x)
    \/ RLeq(RAdd(b.x, b.w), a.x)
    \/ RLeq(RAdd(a.y, a.h), b.y)
    \/ RLeq(RAdd(b.y, b.h), a.y)

CropInside(a, img) ==
    /\ RLeq(Num(0), a.x)
    /\ RLeq(Num(0), a.y)
    /\ RLeq(RAdd(a.x, a.w), Num(img.width))
    /\ RLeq(RAdd(a.y, a.h), Num(img.height))

\* C5: when a run has saved its document, the source crops of its rows * cols
\* cells lie inside [0, width] x [0, height], are pairwise non-overlapping
\* and their areas add up to width * height: they partition the image, also
\* when width is no multiple of cols or height no multiple of rows.
C5_CropsPartitionImage ==
    saved =>
        /\ Len(pdf) = snap.settings.rows * snap.settings.cols
        /\ \A i \in 1..Len(pdf) : CropInside(pdf[i].crop, snap.image)
        /\ \A i, j \in 1..Len(pdf) :
               i # j => CropsDisjoint(pdf[i].crop, pdf[j].crop)
        /\ SumOfCropAreas(pdf, Len(pdf))
               = Num(snap.image.width * snap.image.height)

\* a finished run over several rows and columns whose crops are fractional
\* in width or height
C5_Witness ==
    /\ saved
    /\ snap.settings.rows > 1
    /\ snap.settings.cols > 1
    /\ \E i \in 1..Len(pdf) :
           ~IsInteger(pdf[i].crop.w) \/ ~IsInteger(pdf[i].crop.h)

\* C6: the crop width and height reach the rendered tile unrounded: the
\* canvas every tile is drawn on and exported from is width / cols wide and
\* height / rows tall.
C6_CanvasKeepsFraction ==
    RunHasDocument =>
        \A i \in DrawnPages :
            /\ pdf[i].canvas.w
                   = RDiv(Num(snap.image.width), Num(snap.settings.cols))
            /\ pdf[i].canvas.h
                   = RDiv(Num(snap.image.height), Num(snap.settings.rows))

GridCells(s) == (0..(s.rows - 1)) \X (0..(s.cols - 1))

\* C7: page number row * cols + col + 1 is a bijection from the grid cells
\* of a run onto 1..rows * cols, and the pages are produced in row-major
\* order with the numbers 1, 2, 3, ...
C7_PageNumbering ==
    RunHasDocument =>
        LET s == snap.settings
        IN  /\ \A a, b \in GridCells(s) :
                   PageNumber(s, a[1], a[2]) = PageNumber(s, b[1], b[2])
                       => a = b
            /\ {PageNumber(s, a[1], a[2]) : a \in GridCells(s)}
                   = 1..(s.rows * s.cols)
            /\ \A i \in DrawnPages :
                   /\ pdf[i].pageNumber = i
                   /\ pdf[i].rowLabel - 1 = (i - 1) \div s.cols
                   /\ pdf[i].colLabel - 1 = (i - 1) % s.cols
            /\ saved =>
                   {pdf[i].pageNumber : i \in 1..Len(pdf)}
                       = 1..(s.rows * s.cols)

\* a finished run over a grid that is not square
C7_Witness ==
    /\ saved
    /\ snap.settings.rows > 1
    /\ snap.settings.cols > 1
    /\ snap.settings.rows # snap.settings.cols

C9_CaptionLabels ==
    RunHasDocument =>
        \A i \in DrawnPages :
            /\ pdf[i].rowLabel \in 1..snap.settings.rows
            /\ pdf[i].colLabel \in 1..snap.settings.cols
            /\ pdf[i].pageNumber
                   = (pdf[i].rowLabel - 1) * snap.settings.cols
                         + pdf[i].colLabel

\* a page of the last row and last column of a grid with several rows
C9_Witness ==
    /\ RunHasDocument
    /\ \E i \in DrawnPages :
           /\ pdf[i].rowLabel = snap.settings.rows
           /\ pdf[i].colLabel = snap.settings.cols
           /\ pdf[i].rowLabel > 1
           /\ pdf[i].colLabel > 1

\* C10: a click on an orientation button leaves rows, cols and paperSize
\* as they were, and when it changes the orientation the sheet width and
\* the sheet height of the layout are exchanged.
C10_OrientationSwapsSheet ==
    [][updateOrientation =>
          /\ settings'.rows = settings.rows
          /\ settings'.cols = settings.cols
          /\ settings'.rows * settings'.cols = settings.rows * settings.cols
          /\ settings'.paperSize = settings.paperSize
          /\ settings'.orientation # settings.orientation =>
                 /\ computeLayout(image', settings').pWidth
                        = drawMetrics.pHeight
                 /\ computeLayout(image', settings').pHeight
                        = drawMetrics.pWidth]_vars

\* the orientation differs from the one suggested for the loaded image: it
\* was switched after the load
C10_Witness ==
    /\ image # Null
    /\ settings.orientation # bestOrientation(image.aspectRatio)

(***************************************************************************)
(* Properties settled on the grid, the tie, the destination rectangle, the *)
(* advisor, the memo, overlapMm and three worked scenarios.                *)
(***************************************************************************)
PaperOf(s) == PAPER_SIZES[s.paperSize]

\* C11: for every orientation the poster is cols effective sheet widths wide
\* and rows effective sheet heights tall, the effective sheet being the
\* paper's width x height in portrait and height x width in landscape; rows
\* and cols are never exchanged in landscape.
C11_GridNeverTransposed ==
    \A l \in LayoutsInState :
        LET s == l.settings
            m == l.drawMetrics
            effW == IF s.orientation = "portrait" THEN PaperOf(s).width
                    ELSE PaperOf(s).height
            effH == IF s.orientation = "portrait" THEN PaperOf(s).height
                    ELSE PaperOf(s).width
        IN  /\ m.totalPosterWidth = RMul(effW, Num(s.cols))
            /\ m.totalPosterHeight = RMul(effH, Num(s.rows))

C11_Witness ==
    \E l \in LayoutsInState :
        /\ l.settings.orientation = "landscape"
        /\ l.settings.rows # l.settings.cols
        /\ l.drawMetrics.totalPosterWidth =
               RMul(PaperOf(l.settings).height, Num(l.settings.cols))

\* C12: when the image's aspect ratio equals the poster's exactly, the layout
\* takes the height-saturating (else) branch, and the draw size is the whole
\* poster, which is also what the width-saturating branch computes.
C12_TieTakesElseBranch ==
    \A l \in LayoutsInState :
        LET m == l.drawMetrics
            a == ImageAspectOf(l)
        IN  a = m.posterAspect =>
                /\ ~m.wide
                /\ m.finalDrawW = m.totalPosterWidth
                /\ m.finalDrawH = m.totalPosterHeight
                /\ FitWidth(m.totalPosterWidth, a)
                       = [w |-> m.finalDrawW, h |-> m.finalDrawH]

C12_Witness ==
    \E l \in LayoutsInState :
        /\ ImageAspectOf(l) = l.drawMetrics.posterAspect
        /\ ~l.drawMetrics.wide
        /\ l.settings.cols > 1

\* C13: on every page of a run the destination rectangle is drawWidth/cols
\* wide and drawHeight/rows tall and is centred on the sheet (the margins
\* left and right are equal, and so are the margins above and below); size
\* and offset are the same on every sheet of the run, whatever its (row, col).
C13_SameCentredRectOnEverySheet ==
    RunHasDocument =>
        \A i \in DrawnPages :
            LET d == pdf[i].dest
                s == snap.settings
                m == snap.drawMetrics
            IN  /\ RMul(d.w, Num(s.cols)) = m.finalDrawW
                /\ RMul(d.h, Num(s.rows)) = m.finalDrawH
                /\ RAdd(RAdd(d.x, d.w), d.x) = SheetWidth(s)
                /\ RAdd(RAdd(d.y, d.h), d.y) = SheetHeight(s)
                /\ \A j \in DrawnPages : pdf[j].dest = d

C13_Witness ==
    /\ saved
    /\ Len(pdf) > 1
    /\ \A i \in 1..Len(pdf) : pdf[i].drawn
    /\ pdf[1].dest.x # Num(0)
    /\ pdf[Len(pdf)].rowLabel > 1
    /\ pdf[Len(pdf)].colLabel > 1

\* C14: whenever an image load completes, the settings get cols = 3, rows = 2
\* and landscape if the image is strictly wider than tall, and cols = 2,
\* rows = 3 and portrait otherwise, a square image included.
C14_AdvisorPolicy ==
    [][(pending' # pending /\ pending' \subseteq pending) =>
          /\ image' # Null
          /\ IF image'.width > image'.height
              THEN /\ settings'.cols = 3
                   /\ settings'.rows = 2
                   /\ settings'.orientation = "landscape"
              ELSE /\ settings'.cols = 2
                   /\ settings'.rows = 3
                   /\ settings'.orientation = "portrait"]_vars

C14_Witness ==
    /\ image # Null
    /\ image.width = image.height
    /\ pending = {}
    /\ settings.cols = 2
    /\ settings.rows = 3
    /\ settings.orientation = "portrait"
    /\ snap = NoSnap

SuggestedKeys == {"rows", "cols", "orientation"}

\* C15: the suggestion is applied only by the step that completes a load:
\* every other step leaves the settings alone or changes the one value the
\* user set, so the values set after a load are not overwritten while that
\* image stays loaded.
C15_AdvisorOnlyAtLoad ==
    [][(pending' = pending \/ ~(pending' \subseteq pending)) =>
          /\ image' \in {image, Null}
          /\ \E key \in SuggestedKeys :
                \A k \in DOMAIN settings \ {key} : settings'[k] = settings[k]
      ]_vars

C15_Witness ==
    /\ image # Null
    /\ settings.rows # suggestedRows(image.aspectRatio)
    /\ settings.cols # suggestedCols(image.aspectRatio)
    /\ settings.orientation # bestOrientation(image.aspectRatio)
    /\ saved

WithOverlap(l, o) ==
    LET s == [l.settings EXCEPT !.overlapMm = o]
    IN  [image |-> l.image, settings |-> s,
         drawMetrics |-> computeLayout(l.image, s)]

\* C17: overlapMm changes nothing: a run that differs in overlapMm only has
\* the same layout and, cell by cell, the same source crop, destination
\* rectangle with its offset and page number, hence the same document.
C17_OverlapIsNoOp ==
    \A l \in LayoutsInState : \A o \in OverlapValues :
        LET k == WithOverlap(l, o)
        IN  /\ k.drawMetrics = l.drawMetrics
            /\ \A cell \in GridCells(l.settings) :
                  /\ SourceCrop(k.image, k.settings, cell[1], cell[2])
                       = SourceCrop(l.image, l.settings, cell[1], cell[2])
                  /\ DestDraw(k.drawMetrics, k.settings)
                       = DestDraw(l.drawMetrics, l.settings)
                  /\ PageNumber(k.settings, cell[1], cell[2])
                       = PageNumber(l.settings, cell[1], cell[2])
            /\ (saved /\ l = snap) =>
                  pdf = renderLoop(NewDocument(k.settings), k, 0, 0)

C17_Witness ==
    /\ saved
    /\ snap.settings.overlapMm = 10
    /\ Len(pdf) = 6
    /\ pdf = renderLoop(NewDocument(snap.settings), WithOverlap(snap, 0), 0, 0)

\* the scenario of C18 as the input of a layout or of a run
IsScenarioA4Portrait2x2(l) ==
    /\ l.image.width = 1600
    /\ l.image.height = 1200
    /\ l.settings.paperSize = "a4"
    /\ l.settings.orientation = "portrait"
    /\ l.settings.rows = 2
    /\ l.settings.cols = 2

\* C18: a 1600 x 1200 image on 2 x 2 portrait A4 sheets gives a poster of
\* 420 x 594 mm and a draw size of 420 x 315 mm, and the run has 4 tiles,
\* each with a source crop of 800 x 600 px drawn 210 x 157.5 mm large at
\* offset (0, 69.75) mm.
C18_ScenarioA4Portrait2x2 ==
    /\ \A l \in LayoutsInState : IsScenarioA4Portrait2x2(l) =>
          /\ l.drawMetrics.totalPosterWidth = Num(420)
          /\ l.drawMetrics.totalPosterHeight = Num(594)
          /\ l.drawMetrics.finalDrawW = Num(420)
          /\ l.drawMetrics.finalDrawH = Num(315)
    /\ (saved /\ IsScenarioA4Portrait2x2(snap)) =>
          /\ Len(pdf) = 4
          /\ \A i \in 1..4 :
                /\ pdf[i].drawn
                /\ pdf[i].crop.w = Num(800)
                /\ pdf[i].crop.h = Num(600)
                /\ pdf[i].dest.w = Num(210)
                /\ pdf[i].dest.h = <<315, 2>>
                /\ pdf[i].dest.x = Num(0)
                /\ pdf[i].dest.y = <<279, 4>>

C18_Witness ==
    /\ saved
    /\ IsScenarioA4Portrait2x2(snap)
    /\ Len(pdf) = 4
    /\ pdf[4].dest.y = <<279, 4>>

\* the scenario of C19 as the input of a layout
IsScenarioSquareOnOneA4(l) ==
    /\ l.image.width = l.image.height
    /\ l.settings.paperSize = "a4"
    /\ l.settings.orientation = "portrait"
    /\ l.settings.rows = 1
    /\ l.settings.cols = 1

C20_ScenarioThreeRowsOneCol ==
    (saved /\ snap.settings.rows = 3 /\ snap.settings.cols = 1) =>
        /\ Len(pdf) = 3
        /\ \A i \in 1..3 :
              /\ pdf[i].drawn
              /\ pdf[i].pageNumber = i
              /\ pdf[i].crop = SourceCrop(snap.image, snap.settings, i - 1, 0)
              /\ pdf[i].rowLabel = i
              /\ pdf[i].colLabel = 1

C20_Witness ==
    /\ saved
    /\ snap.settings.rows = 3
    /\ snap.settings.cols = 1
    /\ Len(pdf) = 3
    /\ pdf[3].pageNumber = 3

(***************************************************************************)
(* Properties of the grid bounds, of a generation run and its failures, of *)
(* the frame of the handlers and of the preview.                           *)
(***************************************************************************)
\* C21: whenever an image is loaded, and in every layout handed to a run,
\* rows and cols are integers between 1 and 15: no sequence of loads, slider
\* changes and orientation changes gives the layout calculator a grid with
\* rows < 1 or cols < 1.
C21_GridWithinBounds ==
    \A s \in (IF image # Null THEN {settings} ELSE {})
              \cup (IF snap # NoSnap THEN {snap.settings} ELSE {}) :
        /\ s.rows \in SliderMin..SliderMax
        /\ s.cols \in SliderMin..SliderMax

C21_Witness ==
    /\ image # Null
    /\ settings.rows = SliderMin
    /\ settings.cols = SliderMin
    /\ saved
    /\ snap.settings.rows = 3

\* C22: every page of a run, from the first page created at the request to
\* the last page of the saved document, has the sheet format of the settings
\* captured at the request, and every page drawn has the crop size and the
\* destination rectangle of the captured image, settings and layout; a saved
\* document has one page per cell of the captured grid. Changes of the
\* settings or of the image made while the run waits do not show in it.
C22_OneSnapshotPerRun ==
    RunHasDocument =>
        /\ \A i \in 1..Len(pdf) :
              /\ pdf[i].paperSize = snap.settings.paperSize
              /\ pdf[i].orientation = snap.settings.orientation
        /\ \A i \in DrawnPages :
              /\ pdf[i].dest = DestDraw(snap.drawMetrics, snap.settings)
              /\ pdf[i].crop.w = imgChunkW(snap.image, snap.settings)
              /\ pdf[i].crop.h = imgChunkH(snap.image, snap.settings)
        /\ saved => /\ Len(pdf) = snap.settings.rows * snap.settings.cols
                    /\ DrawnPages = 1..Len(pdf)

\* the run waits for the decode, its first page exists, and meanwhile the
\* image was replaced and rows, cols and orientation were changed
C22_Witness ==
    /\ pc = "await"
    /\ Len(pdf) = 1
    /\ image # Null
    /\ image # snap.image
    /\ settings.rows # snap.settings.rows
    /\ settings.cols # snap.settings.cols
    /\ settings.orientation # pdf[1].orientation

\* C23: a run in which the renderer threw has reported the failure and has
\* saved no document, and its generating flag is false again with no run in
\* progress, which is what the generate button needs to start a new one.
C23_FailureReportedAndReset ==
    alerted =>
        /\ ~saved
        /\ pdf = <<>>
        /\ ~isGenerating
        /\ pc = "idle"

C23_Witness ==
    /\ alerted
    /\ ~saved
    /\ ~isGenerating
    /\ image # Null
    /\ settings.rows # settings.cols

\* C24: every started generation ends: from a state with isGenerating true
\* a state with isGenerating false is eventually reached, whether the decode
\* succeeds, fails or the renderer throws.
C24_EveryGenerationEnds == isGenerating ~> ~isGenerating

\* C25: at most one generation is in progress: a run is handed its snapshot
\* only in a state in which isGenerating is false and no run waits, and from
\* then on isGenerating is true until that run has reset it.
C25_OneGenerationAtATime ==
    [][/\ (snap' # snap /\ snap' # NoSnap) =>
            /\ ~isGenerating
            /\ pc = "idle"
            /\ isGenerating'
       /\ (isGenerating /\ ~isGenerating') => (pc = "await" /\ pc' = "idle")
       /\ (pc' # "idle") => isGenerating'
      ]_vars

\* a generation is in progress, the button is rendered, and a click on it
\* would start a run on other settings
C25_Witness ==
    /\ isGenerating
    /\ pc = "await"
    /\ image # Null
    /\ settings # snap.settings
    /\ drawMetrics # snap.drawMetrics

\* C26: the layout drawMetrics is null exactly when no image is loaded, so
\* the preview, rendered only with an image, has a layout to read; and while
\* no image is loaded and no run is in progress, no step starts a run or
\* touches a document, an alert or the generating flag.
C26_LayoutNullIffNoImage ==
    /\ []((drawMetrics = Null) <=> (image = Null))
    /\ [][(image = Null /\ pc = "idle") =>
             UNCHANGED <<isGenerating, pc, snap, pdf, saved, alerted>>]_vars

C26_Witness ==
    /\ image = Null
    /\ drawMetrics = Null
    /\ saved
    /\ pending # {}

\* C27: for every layout the destination rectangle of a cell lies inside the
\* sheet: both offsets are at least 0, offset plus width is at most the sheet
\* width and offset plus height is at most the sheet height.
C27_DestInsideSheet ==
    \A l \in LayoutsInState :
        LET d == DestDraw(l.drawMetrics, l.settings)
        IN  /\ RLeq(Num(0), d.x)
            /\ RLeq(Num(0), d.y)
            /\ RLeq(RAdd(d.x, d.w), SheetWidth(l.settings))
            /\ RLeq(RAdd(d.y, d.h), SheetHeight(l.settings))

\* a saved page whose rectangle touches the left and right edge of the sheet
\* and leaves a margin above and below
C27_Witness ==
    /\ saved
    /\ Len(pdf) > 1
    /\ pdf[2].dest.x = Num(0)
    /\ RLess(Num(0), pdf[2].dest.y)
    /\ RAdd(pdf[2].dest.x, pdf[2].dest.w) = SheetWidth(snap.settings)

\* C28: a step of updateSetting, taken through the cols slider, the rows
\* slider or an orientation button, changes the named settings field only:
\* every other field of the settings, the loaded image and the generating
\* flag are as before, and so is the run in progress, if any.
C28_UpdateSettingFrame ==
    [][\A key \in SuggestedKeys :
          (CASE key = "cols" -> updateCols
             [] key = "rows" -> updateRows
             [] OTHER -> updateOrientation) =>
              /\ \A k \in DOMAIN settings \ {key} : settings'[k] = settings[k]
              /\ DOMAIN settings' = DOMAIN settings
              /\ image' = image
              /\ isGenerating' = isGenerating
              /\ snap' = snap
      ]_vars

\* a run waits, and since its request cols was changed and nothing else
C28_Witness ==
    /\ isGenerating
    /\ pc = "await"
    /\ image = snap.image
    /\ settings.cols # snap.settings.cols
    /\ settings = [snap.settings EXCEPT !.cols = settings.cols]

\* C29: the step that completes a load replaces the image by the decoded one
\* and, in the same step, sets rows, cols and orientation to the values
\* advised for that image; paperSize and overlapMm keep their values and
\* nothing else changes. The image is replaced by no other step, so the new
\* image never appears with the grid advised for the previous one.
C29_LoadFrame ==
    [][/\ (pending' # pending /\ pending' \subseteq pending) =>
            /\ \E d \in pending \ pending' :
                  image' = ImageMetadata(d[1], d[2])
            /\ settings'.paperSize = settings.paperSize
            /\ settings'.overlapMm = settings.overlapMm
            /\ DOMAIN settings' = DOMAIN settings
            /\ settings'.cols = suggestedCols(image'.aspectRatio)
            /\ settings'.rows = suggestedRows(image'.aspectRatio)
            /\ settings'.orientation = bestOrientation(image'.aspectRatio)
            /\ UNCHANGED <<isGenerating, pc, snap, pdf, saved, alerted>>
       /\ (image' # image /\ image' # Null) =>
            (pending' # pending /\ pending' \subseteq pending)
      ]_vars

\* a second image has just been loaded over the one a saved run used: it has
\* its own advised grid and the paper size of before
C29_Witness ==
    /\ saved
    /\ image # Null
    /\ image # snap.image
    /\ settings.cols = suggestedCols(image.aspectRatio)
    /\ settings.cols # suggestedCols(snap.image.aspectRatio)
    /\ settings.rows = suggestedRows(image.aspectRatio)
    /\ settings.orientation = bestOrientation(image.aspectRatio)
    /\ settings.paperSize = snap.settings.paperSize
    /\ settings.paperSize = "letter"

(***************************************************************************)
(* The preview grid: settings.rows * settings.cols labelled cells, placed  *)
(* by the CSS grid of settings.cols columns in document order.             *)
(***************************************************************************)
PreviewIndices(s) == 0..(s.rows * s.cols - 1)

PreviewLabel(i) == i + 1

PreviewRowColumnMajor(s, i) == i % s.rows

PreviewRow(s, i) == i \div s.cols

PreviewCol(s, i) == i % s.cols

\* C30: the preview has rows * cols cells labelled 1..rows * cols in
\* row-major order, the cell at (row, col) is labelled row * cols + col + 1,
\* and a document generated with the same settings has, for that cell, the
\* page with that number, row and column.
C30_PreviewAgreesWithDocument ==
    \A l \in LayoutsInState :
        LET s == l.settings
            cellOf(i) == <<PreviewRow(s, i), PreviewCol(s, i)>>
        IN  /\ {cellOf(i) : i \in PreviewIndices(s)} = GridCells(s)
            /\ {PreviewLabel(i) : i \in PreviewIndices(s)}
                   = 1..(s.rows * s.cols)
            /\ \A i \in PreviewIndices(s) :
                  /\ PreviewLabel(i) = cellOf(i)[1] * s.cols + cellOf(i)[2] + 1
                  /\ (saved /\ l = snap) =>
                        \E p \in DrawnPages :
                            /\ pdf[p].pageNumber = PreviewLabel(i)
                            /\ pdf[p].rowLabel = cellOf(i)[1] + 1
                            /\ pdf[p].colLabel = cellOf(i)[2] + 1

\* the preview shows the grid of the document just saved, 2 columns by 3 rows
C30_Witness ==
    /\ saved
    /\ image = snap.image
    /\ settings = snap.settings
    /\ settings.cols = 2
    /\ settings.rows = 3
    /\ Len(pdf) = Cardinality(PreviewIndices(settings))
    /\ pdf[4].pageNumber = PreviewLabel(3)
    /\ pdf[4].rowLabel = PreviewRow(settings, 3) + 1

=============================================================================
